---------------------------- MODULE Spec2Model ----------------------------
(***************************************************************************)
(* EE Department Management API (src/main.py, src/schemas.py).             *)
(*                                                                         *)
(* The state is the document store (one collection per entity), the        *)
(* store's identifier generator and the requests in flight.  Every handler *)
(* of main.py is an operator that gives the response and the collection    *)
(* it leaves, and an action that applies it.  A handler that talks to the  *)
(* store twice (an existence check, then an insert or an update) is two    *)
(* operators and two actions: nothing in the handler holds the store       *)
(* between its two calls.  A handler body contains no await, so inside one *)
(* worker process a handler runs to its end before that worker takes its   *)
(* next request; requests served by different workers interleave at the    *)
(* store calls.                                                            *)
(***************************************************************************)
EXTENDS Naturals, FiniteSets, Bags

VARIABLES user, level, section, timetableentry, announcement, material,
          roombooking, attendance, nextOid, inflight

store == <<user, level, section, timetableentry, announcement, material,
           roombooking, attendance>>
vars == <<user, level, section, timetableentry, announcement, material,
          roombooking, attendance, nextOid, inflight>>

(***************************************************************************)
(* Bounds of the model.                                                    *)
(***************************************************************************)
\* documents the store may hold in all
MaxDocs == 3
\* worker processes serving requests side by side
NWorkers == 2

Collections == {"user", "level", "section", "timetableentry", "announcement",
                "material", "roombooking", "attendance"}

\* An ObjectId: the n-th identifier generated for a document of collection c.
\* ZeroOid (twenty-four zeros) is an identifier no document has.
Oid(c, n) == [c |-> c, n |-> n]
ZeroOid == Oid("none", 0)

(***************************************************************************)
(* Values.  An Optional[...] value is a set with at most one element: {}   *)
(* is None.  The text of an identifier is a record: the 24 hex digits of   *)
(* ObjectId oid in lower case (what str(ObjectId) gives) or in upper case  *)
(* (another spelling ObjectId() accepts), a text that is no identifier, or *)
(* the empty text.                                                         *)
(***************************************************************************)
None == {}
Some(v) == {v}
Val(o) == CHOOSE v \in o : TRUE

Hex(n) == [form |-> "lower", oid |-> n]
HEX(n) == [form |-> "upper", oid |-> n]
Malformed == [form |-> "bad", oid |-> ZeroOid]
EmptyText == [form |-> "empty", oid |-> ZeroOid]

\* every identifier text for collection c: its ids, the first in both spellings, an id
\* of another collection, the all-zero id, and texts that are no identifier
AllIdTexts(c) ==
    {Hex(Oid(c, n)) : n \in 1..MaxDocs}
      \cup {HEX(Oid(c, 1)), Hex(Oid(IF c = "level" THEN "user" ELSE "level", 1)),
            Hex(ZeroOid), Malformed, EmptyText}

\* the identifier texts requests carry where an identifier of collection c
\* is expected: the first id of c, the all-zero id, and a text that is no
\* identifier
IdTexts(c) == {Hex(Oid(c, 1)), Hex(ZeroOid), Malformed}

\* Python truthiness of an Optional[str]: None and "" are falsy
TruthyText(o) == o # None /\ o # Some(EmptyText)
TruthyStr(o) == o # None /\ o # Some("")

(***************************************************************************)
(* Request payloads offered to the handlers.  Fields no handler reads      *)
(* (full_name, password, start_time, ...) are left out of the documents.   *)
(***************************************************************************)
Emails == {"a@x", "A@x"}
UserPayloads == [email : Emails, role : {"student", "guest"},
                 approved : {FALSE}, section_id : {None}]
LevelPayloads == [name : {"L1"}]
SectionPayloads == [level_id : IdTexts("level") \cup {HEX(Oid("level", 1))},
                    name : {"A"}]
TimetablePayloads == [section_id : IdTexts("section"), day : {"Mon", "Noday"}]
AnnouncementPayloads == [audience : {None, Some("nobody")},
                         level_id : {None}, section_id : {None}]
MaterialPayloads == [teacher_id : {Hex(Oid("user", 1))},
                     section_id : {None, Some(Hex(Oid("section", 1)))}]
BookingPayloads == [room : {"R1"}, status : {None, Some("cancelled")}]
AttendancePayloads == [section_id : {Hex(Oid("section", 1))},
                       student_id : {Hex(Oid("user", 1))},
                       date : {"d1"}, present : {TRUE}]
StatusValues == {"pending", "approved", "declined", "cancelled"}

(***************************************************************************)
(* schemas.py: what request validation accepts, and the defaults that      *)
(* model_dump() fills in.                                                  *)
(***************************************************************************)
ValidUser(u) == u.role \in {"admin", "teacher", "student"}

ValidTimetableEntry(e) == e.day \in {"Mon", "Tue", "Wed", "Thu", "Fri", "Sat", "Sun"}

ValidAnnouncement(a) ==
    a.audience = None
    \/ Val(a.audience) \in {"all", "admins", "teachers", "students", "level", "section"}

DumpAnnouncement(a) ==
    [a EXCEPT !.audience = IF a.audience = None THEN "all" ELSE Val(a.audience)]

ValidRoomBooking(rb) ==
    rb.status = None \/ Val(rb.status) \in {"pending", "approved", "declined"}

DumpRoomBooking(rb) ==
    [rb EXCEPT !.status = IF rb.status = None THEN "pending" ELSE Val(rb.status)]

(***************************************************************************)
(* The store.  A collection is a set of documents, each with its _id.      *)
(***************************************************************************)
\* a parse that takes any text for an identifier
_oid_lenient(id_str) == [ok |-> TRUE, oid |-> id_str.oid]

\* bson.ObjectId(id_str) inside _oid: the parsed identifier, or the 400
_oid(id_str) ==
    IF id_str.form \in {"lower", "upper"}
    THEN [ok |-> TRUE, oid |-> id_str.oid]
    ELSE [ok |-> FALSE, oid |-> ZeroOid]

\* str(inserted_id)
Str(oid) == Hex(oid)

\* a lookup whose answer is always truthy
find_one_id_truthy(coll, oid) == TRUE

\* db[coll].find_one({"_id": oid}) is truthy
find_one_id(coll, oid) == \E d \in coll : d._id = oid

\* a lookup that folds case before comparing
FoldCase(email) == IF email = "A@x" THEN "a@x" ELSE email

find_one_email_nocase(coll, email) ==
    \E d \in coll : FoldCase(d.email) = FoldCase(email)

\* db["user"].find_one({"email": email}) is truthy
find_one_email(coll, email) == \E d \in coll : d.email = email

\* create_document(coll, data): the collection with the new document
create_document(coll, data, oid) ==
    coll \cup {[k \in DOMAIN data \cup {"_id"} |->
                  IF k = "_id" THEN oid ELSE data[k]]}

\* get_documents(coll, filt): every document equal to filt on each of its keys
get_documents(coll, filt) ==
    {d \in coll : \A k \in DOMAIN filt : d[k] = filt[k]}

\* the update's modified count taken for its matched count: documents whose
\* field the update changed
modified_count(coll, oid, field, value) ==
    Cardinality({d \in coll : d._id = oid /\ d[field] # value})

\* the update's acknowledgement taken for its matched count
matched_count_acknowledged(coll, oid) == 1

\* db[coll].update_one({"_id": oid}, {"$set": {field: value}}).matched_count
matched_count(coll, oid) == Cardinality({d \in coll : d._id = oid})

\* an update with upsert=True: a document is made when none matches
update_one_upsert(coll, oid, field, value) ==
    IF \E d \in coll : d._id = oid
    THEN {IF d._id = oid THEN [d EXCEPT ![field] = value] ELSE d : d \in coll}
    ELSE coll \cup {[k \in {"_id", field} |-> IF k = "_id" THEN oid ELSE value]}

\* the collection after that update_one
update_one(coll, oid, field, value) ==
    {IF d._id = oid THEN [d EXCEPT ![field] = value] ELSE d : d \in coll}

(***************************************************************************)
(* Responses.                                                              *)
(***************************************************************************)
\* a response: the status code and detail, and the returned id or list
Response(code, detail, id, body) ==
    [code |-> code, detail |-> detail, id |-> id, body |-> body]

\* raise HTTPException(status_code=code, detail=detail), or the framework's
\* own rejection (422) of a body that fails validation against schemas.py
Raise(code, detail) == Response(code, detail, None, {})

\* return {"id": inserted_id}
Created(oid) == Response(200, "", Some(Str(oid)), {})

\* return {"status": "ok"}
Ok == Response(200, "ok", None, {})

\* return get_documents(...)
Listed(docs) == Response(200, "", None, docs)

\* the existence check passed: the handler goes on to its second store call
Pass == Response(0, "pass", None, {})

\* what a handler call gives: its response and the collection it leaves
Result(r, coll) == [resp |-> r, coll |-> coll]

\* a request between its two store calls
InFlight(op, data) == [op |-> op, data |-> data]

Init ==
    /\ user = {} /\ level = {} /\ section = {} /\ timetableentry = {}
    /\ announcement = {} /\ material = {} /\ roombooking = {} /\ attendance = {}
    /\ nextOid = [c \in Collections |-> 1]
    /\ inflight = EmptyBag

\* bson.ObjectId(): the fresh identifier of the next document of collection c
NewOid(c) == Oid(c, nextOid[c])

Minted(c) == nextOid' = [nextOid EXCEPT ![c] = @ + 1]

\* the store has room for one more document
Room ==
    Cardinality(user) + Cardinality(level) + Cardinality(section)
      + Cardinality(timetableentry) + Cardinality(announcement)
      + Cardinality(material) + Cardinality(roombooking)
      + Cardinality(attendance) < MaxDocs

\* one of n workers is free to take a request
Free(n) == BagCardinality(inflight) < n

Suspend(op, data) == inflight' = inflight (+) SetToBag({InFlight(op, data)})

Resume(r) == inflight' = inflight (-) SetToBag({r})

(***************************************************************************)
(* Admin endpoints: register_user, list_users, approve_user.               *)
(***************************************************************************)
\* register_user up to the existence check (main.py line 66)
register_user_check(u) ==
    IF ~ValidUser(u) THEN Result(Raise(422, "validation"), user)
    ELSE IF find_one_email(user, u.email)
    THEN Result(Raise(400, "Email already registered"), user)
    ELSE Result(Pass, user)

\* an insert that the store refuses when the email is already there
register_user_insert_unique(u) ==
    IF find_one_email(user, u.email)
    THEN Result(Raise(400, "Email already registered"), user)
    ELSE Result(Created(NewOid("user")),
                create_document(user, u, NewOid("user")))

\* register_user from the insert on (main.py lines 68-70)
register_user_insert(u) ==
    Result(Created(NewOid("user")),
           create_document(user, u, NewOid("user")))

RegisterCheck(n, u) ==
    /\ Free(n)
    /\ user' = register_user_check(u).coll
    /\ IF register_user_check(u).resp = Pass
       THEN Suspend("register_user", u)
       ELSE UNCHANGED inflight
    /\ UNCHANGED <<level, section, timetableentry, announcement, material,
                   roombooking, attendance, nextOid>>

RegisterInsert(r) ==
    /\ r.op = "register_user"
    /\ Room
    /\ user' = register_user_insert(r.data).coll
    /\ Minted("user")
    /\ Resume(r)
    /\ UNCHANGED <<level, section, timetableentry, announcement, material,
                   roombooking, attendance>>

\* the filter list_users builds
list_users_filt(role, approved) ==
    LET keys == (IF TruthyStr(role) THEN {"role"} ELSE {})
                  \cup (IF approved # None THEN {"approved"} ELSE {})
    IN [k \in keys |-> IF k = "role" THEN Val(role) ELSE Val(approved)]

list_users(role, approved) ==
    Listed(get_documents(user, list_users_filt(role, approved)))

ListUsers(n, role, approved) ==
    /\ Free(n)
    /\ list_users(role, approved).code = 200
    /\ UNCHANGED vars

approve_user(user_id, approved) ==
    LET id == _oid(user_id)
    IN IF ~id.ok THEN Result(Raise(400, "Invalid id"), user)
       ELSE Result(IF matched_count(user, id.oid) = 0
                   THEN Raise(404, "User not found")
                   ELSE Ok,
                   update_one(user, id.oid, "approved", approved))

ApproveUser(n, user_id, approved) ==
    /\ Free(n)
    /\ user' = approve_user(user_id, approved).coll
    /\ UNCHANGED <<level, section, timetableentry, announcement, material,
                   roombooking, attendance, nextOid, inflight>>

(***************************************************************************)
(* Levels and sections.                                                    *)
(***************************************************************************)
create_level(l) == Result(Created(NewOid("level")),
           create_document(level, l, NewOid("level")))

CreateLevel(n, l) ==
    /\ Free(n)
    /\ Room
    /\ level' = create_level(l).coll
    /\ Minted("level")
    /\ UNCHANGED <<user, section, timetableentry, announcement, material,
                   roombooking, attendance, inflight>>

list_levels == Listed(get_documents(level, <<>>))

ListLevels(n) ==
    /\ Free(n)
    /\ list_levels.code = 200
    /\ UNCHANGED vars

\* create_section up to the level lookup (main.py lines 100-101)
create_section_check(s) ==
    LET id == _oid(s.level_id)
    IN IF ~id.ok THEN Result(Raise(400, "Invalid id"), section)
       ELSE IF ~find_one_id(level, id.oid)
       THEN Result(Raise(400, "Level not found"), section)
       ELSE Result(Pass, section)

\* an insert that stores the parsed identifier's own text, str(ObjectId)
create_section_insert_canonical(s) ==
    Result(Created(NewOid("section")),
           create_document(section, [s EXCEPT !.level_id = Str(_oid(s.level_id).oid)],
                           NewOid("section")))

\* create_section's insert (main.py line 102)
create_section_insert(s) ==
    Result(Created(NewOid("section")),
           create_document(section, s, NewOid("section")))

CreateSectionCheck(n, s) ==
    /\ Free(n)
    /\ section' = create_section_check(s).coll
    /\ IF create_section_check(s).resp = Pass
       THEN Suspend("create_section", s)
       ELSE UNCHANGED inflight
    /\ UNCHANGED <<user, level, timetableentry, announcement, material,
                   roombooking, attendance, nextOid>>

CreateSectionInsert(r) ==
    /\ r.op = "create_section"
    /\ Room
    /\ section' = create_section_insert(r.data).coll
    /\ Minted("section")
    /\ Resume(r)
    /\ UNCHANGED <<user, level, timetableentry, announcement, material,
                   roombooking, attendance>>

list_sections(level_id) ==
    Listed(get_documents(section,
                         IF TruthyText(level_id)
                         THEN [level_id |-> Val(level_id)] ELSE <<>>))

ListSections(n, level_id) ==
    /\ Free(n)
    /\ list_sections(level_id).code = 200
    /\ UNCHANGED vars

\* assign_section up to the section lookup (main.py lines 112-113)
assign_section_check(user_id, section_id) ==
    LET id == _oid(section_id)
    IN IF ~id.ok THEN Result(Raise(400, "Invalid id"), user)
       ELSE IF ~find_one_id(section, id.oid)
       THEN Result(Raise(400, "Section not found"), user)
       ELSE Result(Pass, user)

\* assign_section from the update on (main.py lines 114-117)
assign_section_update(user_id, section_id) ==
    LET id == _oid(user_id)
    IN IF ~id.ok THEN Result(Raise(400, "Invalid id"), user)
       ELSE Result(IF matched_count(user, id.oid) = 0
                   THEN Raise(404, "User not found")
                   ELSE Ok,
                   update_one(user, id.oid, "section_id", Some(section_id)))

\* assign_section from its first line to its last, nothing in between
\* (main.py lines 110-117)
assign_section(user_id, section_id) ==
    LET c == assign_section_check(user_id, section_id)
    IN IF c.resp # Pass THEN c
       ELSE assign_section_update(user_id, section_id)

AssignSectionCheck(n, user_id, section_id) ==
    /\ Free(n)
    /\ user' = assign_section_check(user_id, section_id).coll
    /\ IF assign_section_check(user_id, section_id).resp = Pass
       THEN Suspend("assign_section", [user_id |-> user_id, section_id |-> section_id])
       ELSE UNCHANGED inflight
    /\ UNCHANGED <<level, section, timetableentry, announcement, material,
                   roombooking, attendance, nextOid>>

AssignSectionUpdate(r) ==
    /\ r.op = "assign_section"
    /\ user' = assign_section_update(r.data.user_id, r.data.section_id).coll
    /\ Resume(r)
    /\ UNCHANGED <<level, section, timetableentry, announcement, material,
                   roombooking, attendance, nextOid>>

(***************************************************************************)
(* Timetables.                                                             *)
(***************************************************************************)
\* add_timetable up to the section lookup (main.py lines 123-124)
add_timetable_check(e) ==
    LET id == _oid(e.section_id)
    IN IF ~ValidTimetableEntry(e) THEN Result(Raise(422, "validation"), timetableentry)
       ELSE IF ~id.ok THEN Result(Raise(400, "Invalid id"), timetableentry)
       ELSE IF ~find_one_id(section, id.oid)
       THEN Result(Raise(400, "Section not found"), timetableentry)
       ELSE Result(Pass, timetableentry)

\* add_timetable's insert (main.py line 125)
add_timetable_insert(e) ==
    Result(Created(NewOid("timetableentry")),
           create_document(timetableentry, e, NewOid("timetableentry")))

AddTimetableCheck(n, e) ==
    /\ Free(n)
    /\ timetableentry' = add_timetable_check(e).coll
    /\ IF add_timetable_check(e).resp = Pass
       THEN Suspend("add_timetable", e)
       ELSE UNCHANGED inflight
    /\ UNCHANGED <<user, level, section, announcement, material,
                   roombooking, attendance, nextOid>>

AddTimetableInsert(r) ==
    /\ r.op = "add_timetable"
    /\ Room
    /\ timetableentry' = add_timetable_insert(r.data).coll
    /\ Minted("timetableentry")
    /\ Resume(r)
    /\ UNCHANGED <<user, level, section, announcement, material,
                   roombooking, attendance>>

get_timetable(section_id) ==
    Listed(get_documents(timetableentry, [section_id |-> section_id]))

GetTimetable(n, section_id) ==
    /\ Free(n)
    /\ get_timetable(section_id).code = 200
    /\ UNCHANGED vars

(***************************************************************************)
(* Announcements and materials.                                            *)
(***************************************************************************)
create_announcement(ann) ==
    IF ~ValidAnnouncement(ann) THEN Result(Raise(422, "validation"), announcement)
    ELSE Result(Created(NewOid("announcement")),
                create_document(announcement, DumpAnnouncement(ann), NewOid("announcement")))

CreateAnnouncement(n, ann) ==
    LET res == create_announcement(ann)
    IN /\ Free(n)
       /\ res.resp.code = 200 => Room
       /\ announcement' = res.coll
       /\ IF res.resp.code = 200 THEN Minted("announcement") ELSE UNCHANGED nextOid
       /\ UNCHANGED <<user, level, section, timetableentry, material,
                      roombooking, attendance, inflight>>

\* the filter list_announcements builds
list_announcements_filt(audience, level_id, section_id) ==
    LET keys == (IF TruthyStr(audience) THEN {"audience"} ELSE {})
                  \cup (IF TruthyText(level_id) THEN {"level_id"} ELSE {})
                  \cup (IF TruthyText(section_id) THEN {"section_id"} ELSE {})
    IN [k \in keys |-> IF k = "audience" THEN Val(audience)
                       ELSE IF k = "level_id" THEN level_id ELSE section_id]

list_announcements(audience, level_id, section_id) ==
    Listed(get_documents(announcement,
                         list_announcements_filt(audience, level_id, section_id)))

ListAnnouncements(n, audience, level_id, section_id) ==
    /\ Free(n)
    /\ list_announcements(audience, level_id, section_id).code = 200
    /\ UNCHANGED vars

upload_material(mat) ==
    Result(Created(NewOid("material")),
           create_document(material, mat, NewOid("material")))

UploadMaterial(n, mat) ==
    /\ Free(n)
    /\ Room
    /\ material' = upload_material(mat).coll
    /\ Minted("material")
    /\ UNCHANGED <<user, level, section, timetableentry, announcement,
                   roombooking, attendance, inflight>>

\* the filter list_materials builds
list_materials_filt(section_id, teacher_id) ==
    LET keys == (IF TruthyText(section_id) THEN {"section_id"} ELSE {})
                  \cup (IF TruthyText(teacher_id) THEN {"teacher_id"} ELSE {})
    IN [k \in keys |-> IF k = "section_id" THEN section_id ELSE Val(teacher_id)]

list_materials(section_id, teacher_id) ==
    Listed(get_documents(material, list_materials_filt(section_id, teacher_id)))

ListMaterials(n, section_id, teacher_id) ==
    /\ Free(n)
    /\ list_materials(section_id, teacher_id).code = 200
    /\ UNCHANGED vars

(***************************************************************************)
(* Room booking.                                                           *)
(***************************************************************************)
request_booking(rb) ==
    IF ~ValidRoomBooking(rb) THEN Result(Raise(422, "validation"), roombooking)
    ELSE Result(Created(NewOid("roombooking")),
                create_document(roombooking, DumpRoomBooking(rb), NewOid("roombooking")))

RequestBooking(n, rb) ==
    LET res == request_booking(rb)
    IN /\ Free(n)
       /\ res.resp.code = 200 => Room
       /\ roombooking' = res.coll
       /\ IF res.resp.code = 200 THEN Minted("roombooking") ELSE UNCHANGED nextOid
       /\ UNCHANGED <<user, level, section, timetableentry, announcement,
                      material, attendance, inflight>>

\* a status check that lets every value through
status_allowed_any(status_value) == TRUE

\* status_value in ["pending", "approved", "declined"]
status_allowed(status_value) == status_value \in {"pending", "approved", "declined"}

\* set_booking_status deciding "not found" by the update's modified count
set_booking_status_modified(booking_id, status_value) ==
    LET id == _oid(booking_id)
    IN IF ~status_allowed(status_value)
       THEN Result(Raise(400, "Invalid status"), roombooking)
       ELSE IF ~id.ok THEN Result(Raise(400, "Invalid id"), roombooking)
       ELSE Result(IF modified_count(roombooking, id.oid, "status", status_value) = 0
                   THEN Raise(404, "Booking not found")
                   ELSE Ok,
                   update_one(roombooking, id.oid, "status", status_value))

set_booking_status(booking_id, status_value) ==
    LET id == _oid(booking_id)
    IN IF ~status_allowed(status_value)
       THEN Result(Raise(400, "Invalid status"), roombooking)
       ELSE IF ~id.ok THEN Result(Raise(400, "Invalid id"), roombooking)
       ELSE Result(IF matched_count(roombooking, id.oid) = 0
                   THEN Raise(404, "Booking not found")
                   ELSE Ok,
                   update_one(roombooking, id.oid, "status", status_value))

SetBookingStatus(n, booking_id, status_value) ==
    /\ Free(n)
    /\ roombooking' = set_booking_status(booking_id, status_value).coll
    /\ UNCHANGED <<user, level, section, timetableentry, announcement,
                   material, attendance, nextOid, inflight>>

list_bookings(status) ==
    Listed(get_documents(roombooking,
                         IF TruthyStr(status) THEN [status |-> Val(status)] ELSE <<>>))

ListBookings(n, status) ==
    /\ Free(n)
    /\ list_bookings(status).code = 200
    /\ UNCHANGED vars

(***************************************************************************)
(* Attendance and schema exposure.                                         *)
(***************************************************************************)
mark_attendance(a) ==
    Result(Created(NewOid("attendance")),
           create_document(attendance, a, NewOid("attendance")))

MarkAttendance(n, a) ==
    /\ Free(n)
    /\ Room
    /\ attendance' = mark_attendance(a).coll
    /\ Minted("attendance")
    /\ UNCHANGED <<user, level, section, timetableentry, announcement,
                   material, roombooking, inflight>>

\* the filter list_attendance builds
list_attendance_filt(section_id, student_id, date) ==
    LET keys == (IF TruthyText(section_id) THEN {"section_id"} ELSE {})
                  \cup (IF TruthyText(student_id) THEN {"student_id"} ELSE {})
                  \cup (IF TruthyStr(date) THEN {"date"} ELSE {})
    IN [k \in keys |-> IF k = "section_id" THEN Val(section_id)
                       ELSE IF k = "student_id" THEN Val(student_id) ELSE Val(date)]

list_attendance(section_id, student_id, date) ==
    Listed(get_documents(attendance,
                         list_attendance_filt(section_id, student_id, date)))

ListAttendance(n, section_id, student_id, date) ==
    /\ Free(n)
    /\ list_attendance(section_id, student_id, date).code = 200
    /\ UNCHANGED vars

get_schema_definitions == Response(200, "", None, {})

GetSchemaDefinitions(n) ==
    /\ Free(n)
    /\ get_schema_definitions.code = 200
    /\ UNCHANGED vars

(***************************************************************************)
(* Query parameters offered to the list handlers.                          *)
(***************************************************************************)
OptRoles == {None, Some(""), Some("student"), Some("teacher")}
OptBools == {None, Some(FALSE), Some(TRUE)}
OptAudiences == {None, Some(""), Some("all"), Some("students")}
OptStatuses == {None, Some("")} \cup {Some(st) : st \in StatusValues}
OptDates == {None, Some(""), Some("d1")}
OptTexts(c) == {None, Some(EmptyText), Some(Hex(Oid(c, 1)))}

(***************************************************************************)
(* The next-state relation: a request arrives and runs up to its first     *)
(* store call's answer, or a request in flight runs its second store call. *)
(* n is the number of worker processes.                                    *)
(***************************************************************************)
Arrive(n) ==
    \/ \E u \in UserPayloads : RegisterCheck(n, u)
    \/ \E role \in OptRoles, approved \in OptBools : ListUsers(n, role, approved)
    \/ \E user_id \in IdTexts("user"), approved \in BOOLEAN : ApproveUser(n, user_id, approved)
    \/ \E l \in LevelPayloads : CreateLevel(n, l)
    \/ ListLevels(n)
    \/ \E s \in SectionPayloads : CreateSectionCheck(n, s)
    \/ \E level_id \in OptTexts("level") : ListSections(n, level_id)
    \/ \E user_id \in IdTexts("user"), section_id \in IdTexts("section") :
          AssignSectionCheck(n, user_id, section_id)
    \/ \E e \in TimetablePayloads : AddTimetableCheck(n, e)
    \/ \E section_id \in IdTexts("section") : GetTimetable(n, section_id)
    \/ \E ann \in AnnouncementPayloads : CreateAnnouncement(n, ann)
    \/ \E audience \in OptAudiences, level_id \in OptTexts("level"),
          section_id \in OptTexts("section") :
          ListAnnouncements(n, audience, level_id, section_id)
    \/ \E mat \in MaterialPayloads : UploadMaterial(n, mat)
    \/ \E section_id \in OptTexts("section"), teacher_id \in OptTexts("user") :
          ListMaterials(n, section_id, teacher_id)
    \/ \E rb \in BookingPayloads : RequestBooking(n, rb)
    \/ \E booking_id \in IdTexts("roombooking"), status_value \in StatusValues :
          SetBookingStatus(n, booking_id, status_value)
    \/ \E status \in OptStatuses : ListBookings(n, status)
    \/ \E a \in AttendancePayloads : MarkAttendance(n, a)
    \/ \E section_id \in OptTexts("section"), student_id \in OptTexts("user"),
          date \in OptDates :
          ListAttendance(n, section_id, student_id, date)
    \/ GetSchemaDefinitions(n)

Complete ==
    \E r \in BagToSet(inflight) :
        \/ RegisterInsert(r)
        \/ CreateSectionInsert(r)
        \/ AssignSectionUpdate(r)
        \/ AddTimetableInsert(r)

\* requests served by NWorkers worker processes over the one store
Next == Arrive(NWorkers) \/ Complete

Spec == Init /\ [][Next]_vars

\* requests served one after another: each request's store calls complete
\* before the next request starts
SeqNext == Arrive(1) \/ Complete

SeqSpec == Init /\ [][SeqNext]_vars


(***************************************************************************)
(* Inputs the properties range over: wider than what the requests of the   *)
(* next-state relation carry.                                              *)
(***************************************************************************)
AllUserPayloads == [email : Emails \cup {""}, role : {"admin", "teacher", "student"},
                    approved : BOOLEAN, section_id : {None, Some(EmptyText)}]
AllSectionPayloads == [level_id : AllIdTexts("level"), name : {"A", ""}]
AllTimetablePayloads == [section_id : AllIdTexts("section"), day : {"Mon", "Sun", "Noday"}]
AllStatusValues == {"pending", "approved", "declined", "cancelled", "Approved", ""}
AllowedStatuses == {"pending", "approved", "declined"}
MalformedTexts == {Malformed, EmptyText}

WellFormed(t) == t \notin MalformedTexts
Matching(coll, t) == {d \in coll : WellFormed(t) /\ d._id = t.oid}
WithEmail(coll, email) == {d \in coll : d.email = email}
InFlightOf(op) == {r \in BagToSet(inflight) : r.op = op}
Inserted(data, oid) == [k \in DOMAIN data \cup {"_id"} |-> IF k = "_id" THEN oid ELSE data[k]]

\* no two User documents share an email
EmailUnique == \A d1, d2 \in user : d1.email = d2.email => d1 = d2

(***************************************************************************)
(* C1.  When register requests run one after another, email stays unique:  *)
(* no two User documents share an email; a register whose email equals,    *)
(* case-sensitively, the email of an existing User fails with 400 "Email   *)
(* already registered" and inserts nothing; a register whose email is not  *)
(* yet present passes the check and its insert succeeds, after which       *)
(* list_users holds exactly one User document with that email.             *)
(***************************************************************************)
C1_SequentialRegister ==
    /\ EmailUnique
    /\ \A u \in AllUserPayloads :
          register_user_check(u) =
              Result(IF WithEmail(user, u.email) # {}
                     THEN Raise(400, "Email already registered")
                     ELSE Pass,
                     user)
    /\ \A r \in InFlightOf("register_user") :
          LET res == register_user_insert(r.data)
          IN /\ res.resp = Created(NewOid("user"))
             /\ Cardinality(WithEmail(res.coll, r.data.email)) = 1
    /\ \A d \in user :
          Cardinality(WithEmail(list_users(None, None).body, d.email)) = 1

\* two users whose emails differ only in case are both registered, and a
\* further register with either email is refused
C1_Witness ==
    /\ \E d1, d2 \in user : d1.email = "a@x" /\ d2.email = "A@x"
    /\ \A u \in UserPayloads :
          ValidUser(u) =>
              register_user_check(u).resp = Raise(400, "Email already registered")

(***************************************************************************)
(* C2.  register is a read-then-write that is not atomic: a register       *)
(* request that passed the existence check inserts its document whatever   *)
(* has been inserted since, so when two requests with one email both pass  *)
(* the check before either inserts, both insert and two User documents     *)
(* share that email.                                                       *)
(***************************************************************************)
C2_RaceInserts ==
    \A r \in InFlightOf("register_user") :
        LET res == register_user_insert(r.data)
        IN /\ res.resp = Created(NewOid("user"))
           /\ Cardinality(WithEmail(res.coll, r.data.email))
                = Cardinality(WithEmail(user, r.data.email)) + 1

\* two User documents with one email
C2_Witness == \E d1, d2 \in user : d1 # d2 /\ d1.email = d2.email

(***************************************************************************)
(* C3.  create_section with a well-formed level_id that matches no Level   *)
(* fails with 400 "Level not found" and inserts no Section; with the       *)
(* level_id of an existing Level it passes the check, its insert succeeds  *)
(* and returns the new id, and the stored Section's level_id is the        *)
(* submitted text unchanged, so list_sections filtered by that level_id    *)
(* returns it.                                                             *)
(***************************************************************************)
C3_CreateSection ==
    /\ \A s \in AllSectionPayloads :
          /\ WellFormed(s.level_id) =>
                create_section_check(s) =
                    Result(IF Matching(level, s.level_id) = {}
                           THEN Raise(400, "Level not found")
                           ELSE Pass,
                           section)
          /\ create_section_check(s).resp = Pass =>
                create_section_insert(s) =
                    Result(Created(NewOid("section")),
                           section \cup {Inserted(s, NewOid("section"))})
    /\ \A r \in InFlightOf("create_section") :
          create_section_insert(r.data) =
              Result(Created(NewOid("section")),
                     section \cup {Inserted(r.data, NewOid("section"))})
    /\ \A d \in section : d \in list_sections(Some(d.level_id)).body

\* a Section stored under the upper-case spelling of its Level's id, while
\* a create_section naming the all-zero id is refused
C3_Witness ==
    /\ \E d \in section : d.level_id = HEX(Oid("level", 1))
    /\ create_section_check([level_id |-> Hex(ZeroOid), name |-> "A"]).resp
         = Raise(400, "Level not found")

(***************************************************************************)
(* C4, as stated.  approve_user and assign_section, called with a          *)
(* well-formed user identifier that matches no User, fail with 404 "User   *)
(* not found" whatever the other argument is (any approved value, any      *)
(* section_id), and change no document.                                    *)
(***************************************************************************)
C4_AsStated ==
    \A user_id \in AllIdTexts("user") :
        WellFormed(user_id) /\ Matching(user, user_id) = {} =>
            /\ \A approved \in BOOLEAN :
                  approve_user(user_id, approved)
                    = Result(Raise(404, "User not found"), user)
            /\ \A section_id \in AllIdTexts("section") :
                  assign_section(user_id, section_id)
                    = Result(Raise(404, "User not found"), user)

(***************************************************************************)
(* C4, amended.  With a well-formed user identifier that matches no User:  *)
(* approve_user fails with 404 "User not found" for either approved value; *)
(* assign_section fails with 404 "User not found" when section_id names an *)
(* existing Section, and with 400 ("Invalid id" for a malformed            *)
(* section_id, "Section not found" for one that matches no Section)        *)
(* otherwise, the section being looked up first.  No document changes.     *)
(***************************************************************************)
C4_UserNotFound ==
    \A user_id \in AllIdTexts("user") :
        WellFormed(user_id) /\ Matching(user, user_id) = {} =>
            /\ \A approved \in BOOLEAN :
                  approve_user(user_id, approved)
                    = Result(Raise(404, "User not found"), user)
            /\ \A section_id \in AllIdTexts("section") :
                  /\ assign_section_update(user_id, section_id)
                       = Result(Raise(404, "User not found"), user)
                  /\ assign_section(user_id, section_id) =
                       IF ~WellFormed(section_id)
                       THEN Result(Raise(400, "Invalid id"), user)
                       ELSE IF Matching(section, section_id) = {}
                       THEN Result(Raise(400, "Section not found"), user)
                       ELSE Result(Raise(404, "User not found"), user)

\* a User and a Section exist, and assigning the Section to the all-zero
\* user id is answered 404, as is approving it
C4_Witness ==
    /\ user # {} /\ section # {}
    /\ \E d \in section :
          assign_section(Hex(ZeroOid), Hex(d._id)).resp = Raise(404, "User not found")
    /\ approve_user(Hex(ZeroOid), TRUE).resp = Raise(404, "User not found")

(***************************************************************************)
(* C5.  set_booking_status with a status outside {pending, approved,       *)
(* declined} fails with 400 "Invalid status" for every booking_id          *)
(* (malformed, absent, or naming a booking) and leaves every RoomBooking   *)
(* unchanged; with an allowed status, a malformed id gives 400 "Invalid    *)
(* id" and a well-formed id matching no booking gives 404 "Booking not     *)
(* found".                                                                 *)
(***************************************************************************)
C5_StatusErrors ==
    \A booking_id \in AllIdTexts("roombooking"), status_value \in AllStatusValues :
        LET res == set_booking_status(booking_id, status_value)
        IN /\ status_value \notin AllowedStatuses =>
                 res = Result(Raise(400, "Invalid status"), roombooking)
           /\ status_value \in AllowedStatuses /\ ~WellFormed(booking_id) =>
                 res = Result(Raise(400, "Invalid id"), roombooking)
           /\ status_value \in AllowedStatuses /\ WellFormed(booking_id)
                /\ Matching(roombooking, booking_id) = {} =>
                 res = Result(Raise(404, "Booking not found"), roombooking)

\* a booking exists and "cancelled" is refused for it
C5_Witness ==
    \E d \in roombooking :
        set_booking_status(Hex(d._id), "cancelled").resp = Raise(400, "Invalid status")

(***************************************************************************)
(* C6.  No transition graph on booking status: for an existing booking in  *)
(* any status and any requested status of {pending, approved, declined},   *)
(* the current one included, set_booking_status answers ok, the booking's  *)
(* status becomes the requested one with its other fields and every other  *)
(* booking unchanged, and list_bookings filtered by a booking's status     *)
(* holds the booking; every stored RoomBooking has a status of {pending,   *)
(* approved, declined}.                                                    *)
(***************************************************************************)
C6_BookingStatus ==
    /\ \A d \in roombooking, status_value \in AllowedStatuses :
          \A booking_id \in {Hex(d._id), HEX(d._id)} :
              set_booking_status(booking_id, status_value)
                = Result(Ok, (roombooking \ {d})
                               \cup {[d EXCEPT !.status = status_value]})
    /\ \A d \in roombooking :
          /\ d.status \in AllowedStatuses
          /\ d \in list_bookings(Some(d.status)).body

\* a booking that has been moved to "declined" (bookings are created
\* "pending"), for which the same status is accepted again
C6_Witness ==
    \E d \in roombooking :
        /\ d.status = "declined"
        /\ set_booking_status(Hex(d._id), "declined").resp = Ok

(***************************************************************************)
(* C7.  List filters are conjunctive and exact-match: for every store      *)
(* content and every combination of supplied parameters, a list handler    *)
(* returns exactly the documents equal to each supplied parameter; an      *)
(* omitted parameter imposes no constraint, and with no parameters every   *)
(* document of the collection is returned.                                 *)
(***************************************************************************)
Supplied(o, value) == o = None \/ value = Val(o)

C7_ExactFilters ==
    /\ \A section_id \in OptTexts("section"), teacher_id \in OptTexts("user") :
          list_materials(section_id, teacher_id).body =
              {d \in material : /\ section_id = None \/ d.section_id = section_id
                                /\ Supplied(teacher_id, d.teacher_id)}
    /\ \A role \in OptRoles, approved \in OptBools :
          list_users(role, approved).body =
              {d \in user : Supplied(role, d.role) /\ Supplied(approved, d.approved)}
    /\ \A audience \in OptAudiences, level_id \in OptTexts("level"),
          section_id \in OptTexts("section") :
          list_announcements(audience, level_id, section_id).body =
              {d \in announcement : /\ Supplied(audience, d.audience)
                                    /\ level_id = None \/ d.level_id = level_id
                                    /\ section_id = None \/ d.section_id = section_id}
    /\ \A status \in OptStatuses :
          list_bookings(status).body =
              {d \in roombooking : Supplied(status, d.status)}
    /\ \A section_id \in OptTexts("section"), student_id \in OptTexts("user"),
          date \in OptDates :
          list_attendance(section_id, student_id, date).body =
              {d \in attendance : /\ Supplied(section_id, d.section_id)
                                  /\ Supplied(student_id, d.student_id)
                                  /\ Supplied(date, d.date)}

(***************************************************************************)
(* C8.  approve_user, assign_section (user_id and section_id),             *)
(* create_section (level_id), add_timetable (section_id) and               *)
(* set_booking_status (booking_id) parse an identifier before using it: a  *)
(* malformed identifier makes the request fail with a 400, never a 404 or  *)
(* a success, and the request inserts and updates nothing.                 *)
(***************************************************************************)
C8_MalformedIdentifier ==
    \A bad \in MalformedTexts :
        /\ \A approved \in BOOLEAN :
              approve_user(bad, approved) = Result(Raise(400, "Invalid id"), user)
        /\ \A section_id \in AllIdTexts("section") :
              /\ assign_section(bad, section_id).resp.code = 400
              /\ assign_section(bad, section_id).coll = user
              /\ assign_section_update(bad, section_id)
                   = Result(Raise(400, "Invalid id"), user)
        /\ \A user_id \in AllIdTexts("user") :
              /\ assign_section_check(user_id, bad)
                   = Result(Raise(400, "Invalid id"), user)
              /\ assign_section(user_id, bad) = Result(Raise(400, "Invalid id"), user)
        /\ \A name \in {"A", ""} :
              create_section_check([level_id |-> bad, name |-> name])
                = Result(Raise(400, "Invalid id"), section)
        /\ \A day \in {"Mon", "Sun"} :
              add_timetable_check([section_id |-> bad, day |-> day])
                = Result(Raise(400, "Invalid id"), timetableentry)
        /\ \A status_value \in AllStatusValues :
              /\ set_booking_status(bad, status_value).resp.code = 400
              /\ set_booking_status(bad, status_value).coll = roombooking

\* an assign_section whose section exists and whose user id is malformed is
\* in flight, with a User in the store
C8_Witness ==
    /\ user # {}
    /\ \E r \in InFlightOf("assign_section") : ~WellFormed(r.data.user_id)

\* documents of new that are not, as they stand, in old
Written(old, new) == Cardinality(new \ old)

\* a handler call's result: an error or a passed check leaves the
\* collection alone, a success adds or changes at most one document
AtMostOneWrite(res, coll) ==
    LET r == res
    IN IF r.resp.code = 200 THEN Written(coll, r.coll) <= 1 ELSE r.coll = coll

\* every call of a writing handler, on every input, in every reachable state
C9_Results ==
    /\ \A u \in AllUserPayloads \cup UserPayloads :
          /\ AtMostOneWrite(register_user_check(u), user)
          /\ AtMostOneWrite(register_user_insert(u), user)
    /\ \A user_id \in AllIdTexts("user") :
          /\ \A approved \in BOOLEAN :
                AtMostOneWrite(approve_user(user_id, approved), user)
          /\ \A section_id \in AllIdTexts("section") :
                /\ AtMostOneWrite(assign_section_check(user_id, section_id), user)
                /\ AtMostOneWrite(assign_section_update(user_id, section_id), user)
    /\ \A l \in LevelPayloads : AtMostOneWrite(create_level(l), level)
    /\ \A s \in AllSectionPayloads :
          /\ AtMostOneWrite(create_section_check(s), section)
          /\ AtMostOneWrite(create_section_insert(s), section)
    /\ \A e \in AllTimetablePayloads :
          /\ AtMostOneWrite(add_timetable_check(e), timetableentry)
          /\ AtMostOneWrite(add_timetable_insert(e), timetableentry)
    /\ \A ann \in AnnouncementPayloads :
          AtMostOneWrite(create_announcement(ann), announcement)
    /\ \A mat \in MaterialPayloads : AtMostOneWrite(upload_material(mat), material)
    /\ \A rb \in BookingPayloads : AtMostOneWrite(request_booking(rb), roombooking)
    /\ \A booking_id \in AllIdTexts("roombooking"), status_value \in AllStatusValues :
          AtMostOneWrite(set_booking_status(booking_id, status_value), roombooking)
    /\ \A a \in AttendancePayloads : AtMostOneWrite(mark_attendance(a), attendance)

\* a step of the system writes at most one document in all, and none when
\* it only puts a request in flight
C9_Steps ==
    /\ Written(user, user') + Written(level, level') + Written(section, section')
         + Written(timetableentry, timetableentry')
         + Written(announcement, announcement') + Written(material, material')
         + Written(roombooking, roombooking') + Written(attendance, attendance') <= 1
    /\ BagCardinality(inflight') > BagCardinality(inflight) => UNCHANGED store

(***************************************************************************)
(* C9.  No partial success: every request performs at most one write to    *)
(* the store (one insert or one single-document update); a request that    *)
(* ends in an error leaves the collection it works on exactly as it was,   *)
(* as does the first store call of a two-call handler; list and schema     *)
(* requests never change the store.                                        *)
(***************************************************************************)
C9_NoPartialSuccess == []C9_Results /\ [][C9_Steps]_vars

\* with a User stored and an assign_section in flight for an unknown user:
\* its update will answer 404
C9_Witness ==
    /\ user # {}
    /\ \E r \in InFlightOf("assign_section") :
          assign_section_update(r.data.user_id, r.data.section_id).resp
            = Raise(404, "User not found")

\* the references stored in Sections and TimetableEntries resolve
C10_References ==
    /\ \A d \in section : Matching(level, d.level_id) # {}
    /\ \A d \in timetableentry : Matching(section, d.section_id) # {}

\* every document of old is still there, by its _id, in new
Kept(old, new) == \A d \in old : \E e \in new : e._id = d._id

\* no step removes a document from any collection
C10_OnlyGrows ==
    /\ Kept(user, user') /\ Kept(level, level') /\ Kept(section, section')
    /\ Kept(timetableentry, timetableentry') /\ Kept(announcement, announcement')
    /\ Kept(material, material') /\ Kept(roombooking, roombooking')
    /\ Kept(attendance, attendance')

(***************************************************************************)
(* C10.  No operation deletes a document, so under any interleaving of     *)
(* requests the documents of each collection only grow in number, every    *)
(* stored Section's level_id identifies an existing Level, and every       *)
(* stored TimetableEntry's section_id identifies an existing Section.      *)
(***************************************************************************)
C10_ReferentialInvariants == []C10_References /\ [][C10_OnlyGrows]_vars

\* a TimetableEntry of a Section of a Level
C10_Witness ==
    \E t \in timetableentry :
        \E d \in Matching(section, t.section_id) : Matching(level, d.level_id) # {}
=============================================================================
